---- MODULE Spec2Model ----
(***************************************************************************)
(* odis2vcp: extraction of datasets from an ODIS XML export into VCP XML   *)
(* containers or raw binary files (src/odis2vcp.py).                       *)
(*                                                                         *)
(* Strings are sequences of one-character strings, so that str.replace,    *)
(* concatenation and binascii.unhexlify are computed character by          *)
(* character.  A document is the node list that getElementsByTagName       *)
(* returns: the PARAMETER_DATA elements below the document element, in     *)
(* document order.                                                         *)
(***************************************************************************)
EXTENDS Integers, Sequences, FiniteSets, TLC

\* ------------------------------------------------------------------ bounds
MaxRuns      == 2    \* _run calls made from one GUI process
MaxGuiDocLen == 2    \* record elements per document, GUI documents
MaxCliDocLen == 2    \* record elements per document, CLI documents
MaxStrLen    == 4    \* length of the payload strings normalisation is tried on

\* ------------------------------------------------------------- string data
Absent  == <<"<absent>">>     \* hasAttribute(...) is False
Unbound == <<"<unbound>">>    \* a local variable that was never assigned

S0x   == <<"0", "x">>
S0x00 == <<"0", "x", "0", "0">>
Comma == <<",">>

HexChars == {"0", "1", "2", "3", "4", "5", "6", "7", "8", "9",
             "a", "b", "c", "d", "e", "f", "A", "B", "C", "D", "E", "F"}

HexVal(c) ==
    CASE c = "0" -> 0 [] c = "1" -> 1 [] c = "2" -> 2 [] c = "3" -> 3
      [] c = "4" -> 4 [] c = "5" -> 5 [] c = "6" -> 6 [] c = "7" -> 7
      [] c = "8" -> 8 [] c = "9" -> 9
      [] c \in {"a", "A"} -> 10 [] c \in {"b", "B"} -> 11
      [] c \in {"c", "C"} -> 12 [] c \in {"d", "D"} -> 13
      [] c \in {"e", "E"} -> 14 [] c \in {"f", "F"} -> 15

\* str.replace(pat, ""): every non-overlapping occurrence of pat, found
\* scanning left to right, is removed; the result is not scanned again.
RECURSIVE ReplaceFirstOnly(_, _)
ReplaceFirstOnly(s, pat) ==
    IF Len(s) < Len(pat) THEN s
    ELSE IF SubSeq(s, 1, Len(pat)) = pat
         THEN SubSeq(s, Len(pat) + 1, Len(s))
         ELSE <<s[1]>> \o ReplaceFirstOnly(Tail(s), pat)

RECURSIVE Replace(_, _)
Replace(s, pat) ==
    IF Len(s) < Len(pat) THEN s
    ELSE IF SubSeq(s, 1, Len(pat)) = pat
         THEN Replace(SubSeq(s, Len(pat) + 1, Len(s)), pat)
         ELSE <<s[1]>> \o Replace(Tail(s), pat)

\* dataset.replace('0x', '').replace(",", "")
Normalize(p) == Replace(Replace(p, S0x), Comma)

\* binascii.unhexlify: raises on an odd length or a non-hex character
UnhexlifyFails(s) == (Len(s) % 2 = 1) \/ (\E j \in 1..Len(s) : s[j] \notin HexChars)

Unhexlify(s) == [j \in 1..(Len(s) \div 2) |-> 16 * HexVal(s[2 * j - 1]) + HexVal(s[2 * j])]

\* hex(n) for n >= 0: "0x" followed by lowercase digits
HexDigit(d) == <<"0", "1", "2", "3", "4", "5", "6", "7", "8", "9",
                 "a", "b", "c", "d", "e", "f">>[d + 1]

RECURSIVE HexDigitsOf(_)
HexDigitsOf(n) == IF n < 16 THEN <<HexDigit(n)>>
                  ELSE HexDigitsOf(n \div 16) \o <<HexDigit(n % 16)>>

Hex(n) == S0x \o HexDigitsOf(n)


\* ---------------------------------------------------------------- documents
Str_0x0017 == <<"0", "x", "0", "0", "1", "7">>
Str_A      == <<"A">>
Str_B      == <<"B">>
Str_N      == <<"N">>
Str_V      == <<"V">>
Str_L      == <<"L">>
Str_desc   == <<"d">>

TextNode(d)    == [nodeType |-> "text", data |-> d]
CommentNode(d) == [nodeType |-> "comment", data |-> d]
ElementNode    == [nodeType |-> "element", data |-> <<>>]

Pay_Good   == <<"0", "x", "0", "A", ",", "0", "x", "F", "F">>   \* "0x0A,0xFF"
Pay_Odd    == <<"0", "x", "A">>                                  \* "0xA"
Pay_NonHex == <<"Z", "Z">>                                       \* "ZZ"
Pay_0A     == <<"0", "A">>                                       \* "0A"

AttributeNames == {"DIAGNOSTIC_ADDRESS", "START_ADDRESS", "ZDC_NAME", "ZDC_VERSION", "LOGIN"}

ParameterData(da, sa, zn, zv, lg, kids) ==
    [DIAGNOSTIC_ADDRESS |-> da, START_ADDRESS |-> sa, ZDC_NAME |-> zn,
     ZDC_VERSION |-> zv, LOGIN |-> lg, childNodes |-> kids]

\* Documents given to the GUI runs: complete, bare and LOGIN-only elements,
\* with every shape of child list the payload read distinguishes.
GuiElements ==
    { ParameterData(Str_0x0017, Str_A, Str_N, Str_V, Str_L, kids) :
        kids \in { <<>>, <<ElementNode>>, <<CommentNode(Pay_0A)>>,
                   <<TextNode(Pay_Good)>>, <<TextNode(Pay_Odd)>>,
                   <<TextNode(Pay_NonHex)>> } }
    \cup { ParameterData(Absent, Absent, Absent, Absent, Absent, kids) :
        kids \in { <<>>, <<TextNode(Pay_Good)>> } }
    \cup { ParameterData(Absent, Absent, Absent, Absent, Str_L, <<TextNode(Pay_Good)>>) }

\* Documents given to the command-line run: every combination of declared
\* and undeclared attributes, two start addresses, a well-formed payload.
CliElements ==
    { ParameterData(da, sa, zn, zv, lg, <<TextNode(Pay_0A)>>) :
        da \in {Absent, Str_0x0017}, sa \in {Absent, Str_A, Str_B},
        zn \in {Absent, Str_N}, zv \in {Absent, Str_V}, lg \in {Absent, Str_L} }

SeqsUpTo(S, n) == UNION { [1..k -> S] : k \in 0..n }

Documents(fe) == IF fe = "gui" THEN SeqsUpTo(GuiElements, MaxGuiDocLen)
                 ELSE SeqsUpTo(CliElements, MaxCliDocLen)

\* -------------------------------------------------------------------- state
VARIABLES
    frontend,                   \* "cli": main() calls _run once; "gui": _Model.run calls it per click
    runs,                       \* number of _run calls made so far
    dataset_counter,            \* module global
    extracted_dataset_counter,  \* module global
    pc,                         \* "idle": no _run active; "loop": in the for loop; "done": _run about to return
    file_output_format, file_prefix, parameter_datas,   \* arguments / node list of the active run
    idx,                        \* number of loop iterations completed
    diagnostic_address, start_address, zdc_name, zdc_version, login, filename,  \* locals
    files,                      \* files opened for writing by this run, in order
    log,                        \* log records emitted by this run, in order
    counters0,                  \* <<dataset_counter, extracted_dataset_counter>> when the run began
    extracted_before,           \* extracted_dataset_counter when the current element was reached
    raised, raised_at,          \* exception that ended the run, and the element it was raised at
    payload, once, twice, npc   \* normalisation applied twice to one payload

pipeVars == <<frontend, runs, dataset_counter, extracted_dataset_counter, pc,
              file_output_format, file_prefix, parameter_datas, idx,
              diagnostic_address, start_address, zdc_name, zdc_version, login,
              filename, files, log, counters0, extracted_before, raised, raised_at>>
normVars == <<payload, once, twice, npc>>
vars     == <<pipeVars, normVars>>

\* ------------------------------------------------------------ log records
LogRecord(level, msg, path, converted, total, fmt) ==
    [level |-> level, msg |-> msg, path |-> path,
     converted |-> converted, total |-> total, fmt |-> fmt]

ExtractingInfo(path) == LogRecord("INFO", "Extracting", path, 0, 0, "")
SummaryInfo(converted, total, fmt) == LogRecord("INFO", "datasets extracted", <<>>, converted, total, fmt)
FatalError == LogRecord("ERROR", "Fatal error", <<>>, 0, 0, "")

\* ------------------------------------------------------------------- _run
\* What _run logs once _parse_small_oe_file has returned or raised.
RunEpilogueFallThrough(exc, fmt, converted, total) ==
    IF exc # "none"
    THEN <<FatalError, SummaryInfo(converted, total, IF fmt = "raw" THEN "raw" ELSE "VCP")>>
    ELSE <<SummaryInfo(converted, total, IF fmt = "raw" THEN "raw" ELSE "VCP")>>

RunEpilogue(exc, fmt, converted, total) ==
    IF exc # "none"
    THEN <<FatalError>>
    ELSE <<SummaryInfo(converted, total, IF fmt = "raw" THEN "raw" ELSE "VCP")>>

\* ----------------------------------------------------------- the counters
NoCountDataset(c) == c

CountDataset(c) == c + 1

CountExtracted(c) == c + 1

\* --------------------------------------------------------- the converters
NoXml == [LOGIN |-> <<>>, DATEIID |-> <<>>, VERSION_INHALT |-> <<>>,
          DATEN_NAME |-> <<>>, DATEN_FORMAT_NAME |-> <<>>, START_ADR |-> <<>>,
          GROESSE_DEKOMPRIMIERT |-> <<>>, DATEN |-> <<>>]

FileWritten(k, path, kind, complete, bytes, xml) ==
    [rec |-> k, path |-> path, kind |-> kind, complete |-> complete,
     bytes |-> bytes, xml |-> xml]

\* _extract_to_raw for element k; io is whether open() succeeds.
ExtractToRaw(k, dataset, fname, da, extracted, io) ==
    LET path == da \o <<" ">> \o fname \o <<".", "b", "i", "n">>
        base == [extracted |-> CountExtracted(extracted),
                 log |-> <<ExtractingInfo(path)>>]
    IN  IF ~io
        THEN base @@ [raised |-> "OSError", files |-> <<>>]
        ELSE IF UnhexlifyFails(dataset)
        THEN base @@ [raised |-> "binascii.Error",
                      files |-> <<FileWritten(k, path, "raw", FALSE, <<>>, NoXml)>>]
        ELSE base @@ [raised |-> "none",
                      files |-> <<FileWritten(k, path, "raw", TRUE, Unhexlify(dataset), NoXml)>>]

\* _convert_to_vcp for element k; io is whether open() succeeds.
ConvertToVcp(k, dataset_data, da, sa, zn, zv, lg, fname, extracted, io) ==
    LET dataset_raw == Normalize(dataset_data)
        dataset_size_calc == Len(dataset_raw) \div 2
        xml == [LOGIN |-> lg, DATEIID |-> zn, VERSION_INHALT |-> zv,
                DATEN_NAME |-> zn,
                DATEN_FORMAT_NAME |-> <<"D", "F", "N", "_", "H", "E", "X">>,
                START_ADR |-> sa,
                GROESSE_DEKOMPRIMIERT |-> Hex(dataset_size_calc),
                DATEN |-> dataset_data]
        path == da \o <<" ", "V", "C", "P", " ">> \o fname \o <<".", "x", "m", "l">>
        base == [extracted |-> CountExtracted(extracted),
                 log |-> <<ExtractingInfo(path)>>]
    IN  IF ~io
        THEN base @@ [raised |-> "OSError", files |-> <<>>]
        ELSE base @@ [raised |-> "none",
                      files |-> <<FileWritten(k, path, "vcp", TRUE, <<>>, xml)>>]

\* ----------------------------------------------------- _parse_small_oe_file
\* if parameter_data.hasAttribute(name): var = parameter_data.getAttribute(name)
ReadAttributeOrReset(e, name, cur) == IF e[name] # Absent THEN e[name] ELSE Unbound

ReadAttribute(e, name, cur) == IF e[name] # Absent THEN e[name] ELSE cur

\* parameter_data.childNodes[0].data
FirstChildRaises(e) ==
    IF Len(e.childNodes) = 0 THEN "IndexError"
    ELSE IF e.childNodes[1].nodeType = "element" THEN "AttributeError"
    ELSE "none"

FirstChildData(e) == e.childNodes[1].data

\* One iteration of the for loop over element k = e, from the locals in L and
\* the two counters.  The result holds the locals, the counters, the log
\* records and the files of the iteration, and the exception it raised.
LoopIteration(k, e, fmt, prefix, L, dc, ec, io) ==
    LET da0 == ReadAttribute(e, "DIAGNOSTIC_ADDRESS", L.diagnostic_address)
        da  == IF e.DIAGNOSTIC_ADDRESS # Absent THEN Replace(da0, S0x00) ELSE da0
        sa  == ReadAttribute(e, "START_ADDRESS", L.start_address)
        zn  == ReadAttribute(e, "ZDC_NAME", L.zdc_name)
        zv  == ReadAttribute(e, "ZDC_VERSION", L.zdc_version)
        lg  == ReadAttribute(e, "LOGIN", L.login)
        L1  == [diagnostic_address |-> da, start_address |-> sa, zdc_name |-> zn,
                zdc_version |-> zv, login |-> lg, filename |-> L.filename]
        Stop(exc, locals, d, x, lg2, fs) ==
            [locals |-> locals, dataset_counter |-> d, extracted |-> x,
             log |-> lg2, files |-> fs, raised |-> exc]
    IN  IF e.LOGIN # Absent /\ (sa = Unbound \/ zn = Unbound)
        THEN Stop("UnboundLocalError", L1, dc, ec, <<>>, <<>>)        \* line 311
        ELSE
        LET fn == IF e.LOGIN # Absent
                  THEN sa \o <<" ">> \o zn \o <<" ", "-", " ">> \o prefix
                  ELSE L.filename
            L2 == [L1 EXCEPT !.filename = fn]
            dc1 == CountDataset(dc)
        IN  IF FirstChildRaises(e) # "none"
            THEN Stop(FirstChildRaises(e), L2, dc1, ec, <<>>, <<>>)   \* line 314
            ELSE
            LET data == FirstChildData(e)
            IN  IF fmt = "raw"
                THEN IF fn = Unbound \/ da = Unbound
                     THEN Stop("UnboundLocalError", L2, dc1, ec, <<>>, <<>>)
                     ELSE LET r == ExtractToRaw(k, Normalize(data), fn, da, ec, io)
                          IN  Stop(r.raised, L2, dc1, r.extracted, r.log, r.files)
                ELSE IF Unbound \in {da, sa, zn, zv, lg, fn}
                     THEN Stop("UnboundLocalError", L2, dc1, ec, <<>>, <<>>)
                     ELSE LET r == ConvertToVcp(k, data, da, sa, zn, zv, lg, fn, ec, io)
                          IN  Stop(r.raised, L2, dc1, r.extracted, r.log, r.files)

\* ------------------------------------------------------------------ actions
Locals == [diagnostic_address |-> diagnostic_address, start_address |-> start_address,
           zdc_name |-> zdc_name, zdc_version |-> zdc_version, login |-> login,
           filename |-> filename]

NoLocals == [diagnostic_address |-> Unbound, start_address |-> Unbound,
             zdc_name |-> Unbound, zdc_version |-> Unbound, login |-> Unbound,
             filename |-> Unbound]

SetLocals(L) ==
    /\ diagnostic_address' = L.diagnostic_address
    /\ start_address' = L.start_address
    /\ zdc_name' = L.zdc_name
    /\ zdc_version' = L.zdc_version
    /\ login' = L.login
    /\ filename' = L.filename

\* main() calls _run once; the GUI calls it on every click of "run".
CanRun == pc = "idle" /\ (IF frontend = "cli" THEN runs = 0 ELSE runs < MaxRuns)

\* _run is called and mdom.parse raises (missing, empty or malformed file).
RunParseFail ==
    /\ CanRun
    /\ \E fmt \in {"raw", "vcp"} :
         /\ file_output_format' = fmt
         /\ log' = RunEpilogue("ParseError", fmt, extracted_dataset_counter, dataset_counter)
    /\ file_prefix' = Str_desc
    /\ parameter_datas' = <<>>
    /\ runs' = runs + 1
    /\ idx' = 0
    /\ files' = <<>>
    /\ counters0' = <<dataset_counter, extracted_dataset_counter>>
    /\ extracted_before' = extracted_dataset_counter
    /\ raised' = "ParseError"
    /\ raised_at' = 0
    /\ pc' = "done"
    /\ SetLocals(NoLocals)
    /\ UNCHANGED <<frontend, dataset_counter, extracted_dataset_counter, normVars>>

\* _run is called, the document parses, and the for loop is entered.
RunBegin ==
    /\ CanRun
    /\ file_output_format' \in {"raw", "vcp"}
    /\ parameter_datas' \in Documents(frontend)
    /\ file_prefix' = Str_desc
    /\ runs' = runs + 1
    /\ pc' = "loop"
    /\ idx' = 0
    /\ files' = <<>>
    /\ log' = <<>>
    /\ counters0' = <<dataset_counter, extracted_dataset_counter>>
    /\ extracted_before' = extracted_dataset_counter
    /\ raised' = "none"
    /\ raised_at' = 0
    /\ SetLocals(NoLocals)
    /\ UNCHANGED <<frontend, dataset_counter, extracted_dataset_counter, normVars>>

\* One iteration of the for loop; an exception leaves _parse_small_oe_file
\* and is logged by _run, which then returns.
LoopBody ==
    /\ pc = "loop"
    /\ idx < Len(parameter_datas)
    /\ \E io \in BOOLEAN :
         LET k == idx + 1
             r == LoopIteration(k, parameter_datas[k], file_output_format, file_prefix,
                                Locals, dataset_counter, extracted_dataset_counter, io)
         IN  /\ dataset_counter' = r.dataset_counter
             /\ extracted_dataset_counter' = r.extracted
             /\ files' = files \o r.files
             /\ raised' = r.raised
             /\ IF r.raised = "none"
                THEN /\ idx' = k
                     /\ log' = log \o r.log
                     /\ SetLocals(r.locals)
                     /\ UNCHANGED <<pc, raised_at>>
                ELSE /\ idx' = idx
                     /\ log' = log \o r.log
                               \o RunEpilogue(r.raised, file_output_format,
                                              r.extracted, r.dataset_counter)
                     /\ SetLocals(NoLocals)
                     /\ pc' = "done"
                     /\ raised_at' = k
    /\ extracted_before' = extracted_dataset_counter
    /\ UNCHANGED <<frontend, runs, file_output_format, file_prefix, parameter_datas,
                   counters0, normVars>>

\* The node list is exhausted: _parse_small_oe_file returns and _run logs
\* the summary.
LoopEnd ==
    /\ pc = "loop"
    /\ idx = Len(parameter_datas)
    /\ log' = log \o RunEpilogue("none", file_output_format,
                                 extracted_dataset_counter, dataset_counter)
    /\ pc' = "done"
    /\ SetLocals(NoLocals)
    /\ UNCHANGED <<frontend, runs, dataset_counter, extracted_dataset_counter,
                   file_output_format, file_prefix, parameter_datas, idx, files,
                   counters0, extracted_before, raised, raised_at, normVars>>

\* _run returns to its caller; nothing of the run but the two globals (and
\* what it wrote and logged) outlives it.
RunReturn ==
    /\ pc = "done"
    /\ pc' = "idle"
    /\ parameter_datas' = <<>>
    /\ idx' = 0
    /\ files' = <<>>
    /\ log' = <<>>
    /\ counters0' = <<0, 0>>
    /\ extracted_before' = 0
    /\ raised' = "none"
    /\ raised_at' = 0
    /\ file_output_format' = "vcp"
    /\ UNCHANGED <<frontend, runs, dataset_counter, extracted_dataset_counter,
                   file_prefix, diagnostic_address, start_address, zdc_name,
                   zdc_version, login, filename, normVars>>

\* ------------------------------------------------- normalisation, stand-alone
PayloadChars == {"0", "x", ",", "A"}

Payloads == SeqsUpTo(PayloadChars, MaxStrLen)

NormalizeOnce ==
    /\ npc = "start"
    /\ once' = Normalize(payload)
    /\ npc' = "once"
    /\ UNCHANGED <<payload, twice, pipeVars>>

NormalizeTwice ==
    /\ npc = "once"
    /\ twice' = Normalize(once)
    /\ npc' = "twice"
    /\ UNCHANGED <<payload, once, pipeVars>>

\* ----------------------------------------------------------- specifications
InitPipe(fe) ==
    /\ frontend = fe
    /\ runs = 0
    /\ dataset_counter = 0
    /\ extracted_dataset_counter = 0
    /\ pc = "idle"
    /\ file_output_format = "vcp"
    /\ file_prefix = Str_desc
    /\ parameter_datas = <<>>
    /\ idx = 0
    /\ diagnostic_address = Unbound
    /\ start_address = Unbound
    /\ zdc_name = Unbound
    /\ zdc_version = Unbound
    /\ login = Unbound
    /\ filename = Unbound
    /\ files = <<>>
    /\ log = <<>>
    /\ counters0 = <<0, 0>>
    /\ extracted_before = 0
    /\ raised = "none"
    /\ raised_at = 0

NormOff == payload = <<>> /\ once = <<>> /\ twice = <<>> /\ npc = "off"

Init == InitPipe("gui") /\ NormOff

InitCli == InitPipe("cli") /\ NormOff

InitNormalize ==
    /\ InitPipe("cli")
    /\ payload \in Payloads
    /\ once = <<>>
    /\ twice = <<>>
    /\ npc = "start"

Next == RunParseFail \/ RunBegin \/ LoopBody \/ LoopEnd \/ RunReturn

NextNormalize == NormalizeOnce \/ NormalizeTwice

\* repeated runs from the GUI
Spec == Init /\ [][Next]_vars

\* one run from the command line
SpecCli == InitCli /\ [][Next]_vars

\* normalisation of one payload, twice
SpecNormalize == InitNormalize /\ [][NextNormalize]_vars

\* ================================================================ properties
Last(q) == q[Len(q)]

Contains(s, pat) ==
    \E j \in 1..(Len(s) - Len(pat) + 1) : SubSeq(s, j, j + Len(pat) - 1) = pat

\* The value the nearest element at or before position k declares for an
\* attribute (the diagnostic address without its "0x00"), Unbound if none does.
RECURSIVE NearestDeclared(_, _)
NearestDeclared(name, k) ==
    IF k = 0 THEN Unbound
    ELSE IF parameter_datas[k][name] # Absent
         THEN IF name = "DIAGNOSTIC_ADDRESS"
              THEN Replace(parameter_datas[k][name], S0x00)
              ELSE parameter_datas[k][name]
         ELSE NearestDeclared(name, k - 1)

LacksTextChild(e) == \A j \in 1..Len(e.childNodes) : e.childNodes[j].nodeType # "text"

\* element k has been handled: its iteration completed or raised
Handled(k) == idx >= k \/ (pc = "done" /\ raised_at = k)

IsTerminal(r) == r.msg \in {"Fatal error", "datasets extracted"}

C2_CountersPerRun ==
    (pc = "done" /\ raised = "none")
        => /\ Last(log).total = Len(parameter_datas)
           /\ Last(log).converted = Len(files)

\* C3: when converting a record fails (payload that does not decode, or a
\* failed file write), convertedRecords equals its value before that record
\* was reached.
C3_IncrementOnlyOnSuccess ==
    (pc = "done" /\ raised \in {"binascii.Error", "OSError"})
        => extracted_dataset_counter = extracted_before

\* C4: a handled record element without a text child has failed the run: the
\* error is the run's terminal report, convertedRecords is what it was before
\* the record, and no later record is converted.
C4_MissingTextFailsRun ==
    \A k \in 1..Len(parameter_datas) :
        (Handled(k) /\ LacksTextChild(parameter_datas[k]))
            => /\ pc = "done"
               /\ raised # "none"
               /\ raised_at = k
               /\ Last(log) = FatalError
               /\ extracted_dataset_counter = extracted_before
               /\ \A j \in 1..Len(files) : files[j].rec < k

C6_Idempotent == npc = "twice" => twice = once

\* C6 amended: normalising a normalised payload changes nothing exactly when
\* the normalised payload contains no "0x" (which removing a comma, or an
\* inner "0x", can bring together).
C6_IdempotentUnlessRejoined ==
    npc = "twice" => ((twice = once) <=> ~Contains(once, S0x))

C6_Witness ==
    /\ npc = "twice"
    /\ payload = <<"0", "x", "A", ",">>
    /\ once = <<"A">>
    /\ twice = once

\* C7: a finished _run has logged exactly one terminal record, as its last
\* record: the summary of the two counters if nothing was raised, the error
\* report otherwise; a run still in its loop has logged none.
C7_OneTerminalEvent ==
    /\ pc = "loop" => \A j \in 1..Len(log) : ~IsTerminal(log[j])
    /\ pc = "done" =>
          /\ Len(log) >= 1
          /\ \A j \in 1..(Len(log) - 1) : ~IsTerminal(log[j])
          /\ Last(log) = IF raised = "none"
                         THEN SummaryInfo(extracted_dataset_counter, dataset_counter,
                                          IF file_output_format = "raw" THEN "raw" ELSE "VCP")
                         ELSE FatalError

C7_Witness ==
    /\ pc = "done"
    /\ raised = "binascii.Error"
    /\ Len(log) = 3
    /\ Last(log) = FatalError

\* C8: the records converted in one run are written to pairwise distinct paths.
C8_DistinctPaths ==
    \A j1, j2 \in 1..Len(files) :
        (j1 # j2 /\ files[j1].complete /\ files[j2].complete)
            => files[j1].path # files[j2].path

\* C9: a record is converted only if each of the five attributes has been
\* declared on its element or an earlier one.
C9_AllFiveObserved ==
    \A j \in 1..Len(files) :
        \A name \in AttributeNames : NearestDeclared(name, files[j].rec) # Unbound

\* C10: a run that began with totalRecords = 0 and aborts while handling the
\* k-th record element leaves totalRecords = k.
C10_TotalCountsAbortedRecord ==
    (pc = "done" /\ raised \notin {"none", "ParseError"} /\ counters0[1] = 0)
        => dataset_counter = raised_at

====
